---- MODULE Spec2Model ----
(***************************************************************************)
(* CookieSync (src/CookieSync.cpp): the cookie barrier of the watcher.     *)
(* Threads call sync / syncToNow / notifyCookie / abortAllCookies and the  *)
(* directory mutators concurrently; every shared access of the code is a   *)
(* step of the thread that performs it.                                    *)
(***************************************************************************)
EXTENDS Integers, Sequences, FiniteSets, TLC

(* ------------------------------ bounds -------------------------------- *)
\* number of sync() calls issued in one behaviour (caps serial_)
MaxSerial == 2
\* last instant of the clock, in ticks
MaxTime == 4
\* largest timeout argument of syncToNow, in milliseconds
MaxTimeout == 2

\* clock ticks per millisecond: system_clock is finer than the milliseconds
\* the timeout is kept in
TicksPerMs == 2

Threads == {"t1", "t2"}
None == "none"
\* an empty shared_ptr<Cookie>
NoCookie == -1
\* an empty w_string
NoPath == <<>>
\* an empty optional<tuple<w_string, int>>
NoError == <<>>

(* ------------------------------ strings ------------------------------- *)
\* Paths are character sequences.  "/a" and "/ab" are two directories, the
\* name of the second extending the name of the first.
DirA == <<"/", "a">>
DirAB == <<"/", "a", "b">>
Dirs == {DirA, DirAB}
\* cookiePrefix_ : ".watchman-cookie-<host>-<pid>-", kept as one token
CookiePrefix == <<".cookie-">>
\* a path the watcher may report that is no cookie of this process
OtherPath == <<"/", "a", "/", "f">>
Errnos == {"EACCES", "ENOSPC"}
Digits == <<"0", "1", "2", "3", "4", "5", "6", "7", "8", "9">>

RECURSIVE Decimal(_)
Decimal(n) ==
    IF n < 10 THEN <<Digits[n + 1]>>
    ELSE Decimal(n \div 10) \o <<Digits[(n % 10) + 1]>>

StartsWith(s, p) == Len(p) <= Len(s) /\ SubSeq(s, 1, Len(p)) = p

DirPrefix(d) == d \o <<"/">> \o CookiePrefix

CookiePath(prefix, ser) == prefix \o Decimal(ser)

EmptyMap == [x \in {} |-> None]

Erase(m, ks) == [k \in (DOMAIN m) \ ks |-> m[k]]

\* unordered_map::insert(first, last): a key already present keeps its value
Insert(m, ks, v) ==
    [k \in (DOMAIN m) \cup ks |-> IF k \in DOMAIN m THEN m[k] ELSE v]

(* ------------------------------- state -------------------------------- *)
VARIABLES
    dirs,        \* cookieDirs_.dirs_
    dirsLock,    \* holders of the cookieDirs_ lock: <<thread, "r" | "w">>
    serial,      \* serial_
    cookies,     \* cookies_ : path -> Cookie
    cookiesLock, \* holder of the cookies_ lock, or None
    numPending,  \* Cookie::numPending, per Cookie
    promise,     \* Cookie::promise, per Cookie: the sequence of set.. calls
    files,       \* cookie files on disk
    pc,          \* position of each thread
    loc,         \* locals of the call each thread is in
    outcome,     \* per Cookie: what the sync() call that made it returned or threw
    result,      \* what the last syncToNow call of each thread returned or threw
    alive,       \* FALSE once the process has died
    now,         \* system_clock::now(), in ticks
    created,     \* history: path -> Cookie of every file sync() created
    erasedBy,    \* history: path -> who took its entry out of cookies_
    served,      \* history: paths whose notifyCookie call has decremented
    span,        \* history: Cookie -> number of directories it was built over
    answer       \* what the last query predicate each thread called returned

vars == <<dirs, dirsLock, serial, cookies, cookiesLock, numPending, promise,
          files, pc, loc, outcome, result, alive, now, created, erasedBy, served,
          span, answer>>

registry == <<dirs, dirsLock>>
table == <<cookies, cookiesLock, erasedBy>>
cookieObjs == <<numPending, promise>>
returned == <<outcome, result>>
disk == <<files, created>>

NoLocals ==
    [op |-> None, dir |-> NoPath, path |-> NoPath, todo |-> {},
     cookie |-> NoCookie, pending |-> {}, lastError |-> NoError,
     fails |-> <<>>, swapped |-> EmptyMap,
     timeout |-> 0, deadline |-> 0, waitStart |-> 0]

NoAnswer == [op |-> None, path |-> NoPath, dirs |-> {}, value |-> FALSE]

NoResult == [kind |-> None, err |-> NoError, fails |-> <<>>]

At(t, p) == alive /\ pc[t] = p

Return(t) ==
    /\ pc' = [pc EXCEPT ![t] = "idle"]
    /\ loc' = [loc EXCEPT ![t] = NoLocals]

Goto(t, p, l) ==
    /\ pc' = [pc EXCEPT ![t] = p]
    /\ loc' = [loc EXCEPT ![t] = l]

\* after construction and the addCookieDir calls that follow it: some
\* directories registered, nothing outstanding
Init ==
    /\ dirs \in (SUBSET Dirs) \ {{}}
    /\ dirsLock = {}
    /\ serial = 0
    /\ cookies = EmptyMap
    /\ cookiesLock = None
    /\ numPending = EmptyMap
    /\ promise = EmptyMap
    /\ files = {}
    /\ pc = [t \in Threads |-> "idle"]
    /\ loc = [t \in Threads |-> NoLocals]
    /\ outcome = EmptyMap
    /\ result = [t \in Threads |-> NoResult]
    /\ alive = TRUE
    /\ now = 0
    /\ created = EmptyMap
    /\ erasedBy = EmptyMap
    /\ served = {}
    /\ span = EmptyMap
    /\ answer = [t \in Threads |-> NoAnswer]

(* --------------------------- the two locks ---------------------------- *)
CanRead == \A h \in dirsLock : h[2] = "r"
CanWrite == dirsLock = {}

(* ------------------------------ Cookie -------------------------------- *)
\* mutant: every decrement completes the promise
FetchSubAndSetAlways(c, how) ==
    /\ numPending' = [numPending EXCEPT ![c] = @ - 1]
    /\ promise' = [promise EXCEPT ![c] = Append(@, how)]

\* numPending.fetch_sub(1) on Cookie c; completes the promise with `how`
\* when the value it replaced was 1
FetchSubAndSet(c, how) ==
    /\ numPending' = [numPending EXCEPT ![c] = @ - 1]
    /\ promise' = [promise EXCEPT
                     ![c] = IF numPending[c] = 1 THEN Append(@, how) ELSE @]

\* mutant: the value fetch_sub returns is compared with 0
CookieNotifyComparesZero(c) ==
    /\ numPending' = [numPending EXCEPT ![c] = @ - 1]
    /\ promise' = [promise EXCEPT
                     ![c] = IF numPending[c] = 0 THEN Append(@, "value") ELSE @]

\* Cookie::notify()
CookieNotify(c) == FetchSubAndSet(c, "value")

(* ------------------------- directory registry ------------------------- *)
AddCookieDir(t, d) ==
    /\ At(t, "idle") /\ CanWrite
    /\ dirs' = dirs \cup {d}
    /\ UNCHANGED <<dirsLock, serial, table, cookieObjs, disk, pc, loc,
                   returned, alive, now, served, span, answer>>

SetCookieDir(t, d) ==
    /\ At(t, "idle") /\ CanWrite
    /\ dirs' = {d}
    /\ UNCHANGED <<dirsLock, serial, table, cookieObjs, disk, pc, loc,
                   returned, alive, now, served, span, answer>>

\* removeCookieDir, first block: erase under the registry lock
RemoveDirErase(t, d) ==
    /\ At(t, "idle") /\ CanWrite
    /\ dirs' = dirs \ {d}
    /\ dirsLock' = {<<t, "w">>}
    /\ Goto(t, "rm_unlock", [NoLocals EXCEPT !.op = "removeCookieDir", !.dir = d])
    /\ UNCHANGED <<serial, table, cookieObjs, disk, returned, alive, now,
                   served, span, answer>>

\* mutant: the registry lock is kept while the table lock is taken
RemoveDirKeepsLock(t) ==
    /\ At(t, "rm_unlock")
    /\ Goto(t, "rm_lock", loc[t])
    /\ UNCHANGED <<registry, serial, table, cookieObjs, disk, returned,
                   alive, now, served, span, answer>>

\* end of the block: the registry lock is released
RemoveDirUnlock(t) ==
    /\ At(t, "rm_unlock")
    /\ dirsLock' = dirsLock \ {<<t, "w">>}
    /\ Goto(t, "rm_lock", loc[t])
    /\ UNCHANGED <<dirs, serial, table, cookieObjs, disk, returned, alive,
                   now, served, span, answer>>

\* cookies_.wlock()
RemoveDirLock(t) ==
    /\ At(t, "rm_lock") /\ cookiesLock = None
    /\ cookiesLock' = t
    /\ Goto(t, "rm_loop", loc[t])
    /\ UNCHANGED <<registry, serial, cookies, erasedBy, cookieObjs, disk,
                   returned, alive, now, served, span, answer>>

Matching(m, dir) == {p \in DOMAIN m : StartsWith(p, dir)}

Shares(V, c) == Cardinality({p \in V : cookies[p] = c})

\* mutant: a Cookie whose last share is cancelled is failed
CancelEntriesAborts(V) ==
    /\ numPending' = [c \in DOMAIN numPending |-> numPending[c] - Shares(V, c)]
    /\ promise' = [c \in DOMAIN promise |->
                     IF 1 <= numPending[c] /\ numPending[c] <= Shares(V, c)
                     THEN Append(promise[c], "exception") ELSE promise[c]]
    /\ cookies' = Erase(cookies, V)
    /\ erasedBy' = [p \in (DOMAIN erasedBy) \cup V |->
                      IF p \in V THEN "remove" ELSE erasedBy[p]]

\* the loop body, cookie->notify() then erase, on each entry of V
CancelEntries(V) ==
    /\ numPending' = [c \in DOMAIN numPending |-> numPending[c] - Shares(V, c)]
    /\ promise' = [c \in DOMAIN promise |->
                     IF 1 <= numPending[c] /\ numPending[c] <= Shares(V, c)
                     THEN Append(promise[c], "value") ELSE promise[c]]
    /\ cookies' = Erase(cookies, V)
    /\ erasedBy' = [p \in (DOMAIN erasedBy) \cup V |->
                      IF p \in V THEN "remove" ELSE erasedBy[p]]

\* The range-for over *cookies erases the element its iterator stands on
\* and then advances that iterator: undefined.  The loop visits all the
\* matching entries (the freed node still links to the next one), or stops
\* after any erase, or the process dies.
VisitedByLoop(M) == IF M = {} THEN {{}} ELSE (SUBSET M) \ {{}}

RemoveDirCancel(t) ==
    /\ At(t, "rm_loop")
    /\ LET M == Matching(cookies, loc[t].dir) IN
        \/ /\ \E V \in VisitedByLoop(M) : CancelEntries(V)
           /\ cookiesLock' = None
           /\ Return(t)
           /\ UNCHANGED alive
        \/ /\ M # {}
           /\ alive' = FALSE
           /\ UNCHANGED <<table, cookieObjs, pc, loc>>
    /\ UNCHANGED <<registry, serial, disk, returned, now, served, span,
                   answer>>

(* ------------------------------- sync --------------------------------- *)
\* sync() calls begun that have not drawn their serial yet
Starting == Cardinality({u \in Threads : pc[u] \in {"sync_begin", "sync_serial"}})

\* a plain sync() call begins
SyncCall(t) ==
    /\ At(t, "idle")
    /\ serial + Starting < MaxSerial
    /\ Goto(t, "sync_begin", [NoLocals EXCEPT !.op = "sync"])
    /\ UNCHANGED <<registry, serial, table, cookieObjs, disk, returned,
                   alive, now, served, span, answer>>

\* cookiePrefix(): the prefixes of the registered directories, under rlock
SyncPrefix(t) ==
    /\ At(t, "sync_begin") /\ CanRead
    /\ dirsLock' = dirsLock \cup {<<t, "r">>}
    /\ Goto(t, "sync_serial", [loc[t] EXCEPT !.todo = {DirPrefix(d) : d \in dirs}])
    /\ UNCHANGED <<dirs, serial, table, cookieObjs, disk, returned, alive,
                   now, served, span, answer>>

\* mutant: serial_ is read and not incremented
SyncSerialStale(t) ==
    /\ At(t, "sync_serial")
    /\ dirsLock' = dirsLock \ {<<t, "r">>}
    /\ serial' = serial
    /\ numPending' = Insert(numPending, {serial}, Cardinality(loc[t].todo))
    /\ promise' = Insert(promise, {serial}, <<>>)
    /\ span' = Insert(span, {serial}, Cardinality(loc[t].todo))
    /\ Goto(t, "sync_lock", [loc[t] EXCEPT !.cookie = serial])
    /\ UNCHANGED <<dirs, table, disk, returned, alive, now, served, answer>>

\* cookiePrefix() returns; serial_++; make_shared<Cookie>(prefixes.size())
SyncSerial(t) ==
    /\ At(t, "sync_serial")
    /\ dirsLock' = dirsLock \ {<<t, "r">>}
    /\ serial' = serial + 1
    /\ numPending' = Insert(numPending, {serial}, Cardinality(loc[t].todo))
    /\ promise' = Insert(promise, {serial}, <<>>)
    /\ span' = Insert(span, {serial}, Cardinality(loc[t].todo))
    /\ Goto(t, "sync_lock", [loc[t] EXCEPT !.cookie = serial])
    /\ UNCHANGED <<dirs, table, disk, returned, alive, now, served, answer>>

\* mutant: the lock is not taken before the files are written
SyncLockSkipped(t) ==
    /\ At(t, "sync_lock")
    /\ Goto(t, "sync_create", loc[t])
    /\ UNCHANGED <<registry, serial, table, cookieObjs, disk, returned,
                   alive, now, served, span, answer>>

\* cookies_.wlock(), held to the end of sync()
SyncLock(t) ==
    /\ At(t, "sync_lock") /\ cookiesLock = None
    /\ cookiesLock' = t
    /\ Goto(t, "sync_create", loc[t])
    /\ UNCHANGED <<registry, serial, cookies, erasedBy, cookieObjs, disk,
                   returned, alive, now, served, span, answer>>

\* one round of the loop: w_stm_open succeeds
SyncCreateOk(t) ==
    /\ At(t, "sync_create")
    /\ \E prefix \in loc[t].todo :
        LET path_str == CookiePath(prefix, loc[t].cookie) IN
        /\ files' = files \cup {path_str}
        /\ created' = Insert(created, {path_str}, loc[t].cookie)
        /\ Goto(t, "sync_create",
                [loc[t] EXCEPT !.todo = @ \ {prefix},
                               !.pending = @ \cup {path_str}])
    /\ UNCHANGED <<registry, serial, table, cookieObjs, returned, alive, now,
                   served, span, answer>>

\* mutant: only the first failure is recorded
SyncCreateFailKeepsFirst(t) ==
    /\ At(t, "sync_create")
    /\ \E prefix \in loc[t].todo, errCode \in Errnos :
        LET path_str == CookiePath(prefix, loc[t].cookie) IN
        /\ numPending' = [numPending EXCEPT ![loc[t].cookie] = @ - 1]
        /\ Goto(t, "sync_create",
                [loc[t] EXCEPT !.todo = @ \ {prefix},
                               !.lastError = IF @ = NoError
                                             THEN <<path_str, errCode>> ELSE @,
                               !.fails = Append(@, <<path_str, errCode>>)])
    /\ UNCHANGED <<registry, serial, table, promise, disk, returned, alive,
                   now, served, span, answer>>

\* mutant: a failed creation does not give up its share of numPending
SyncCreateFailNoDecrement(t) ==
    /\ At(t, "sync_create")
    /\ \E prefix \in loc[t].todo, errCode \in Errnos :
        LET path_str == CookiePath(prefix, loc[t].cookie) IN
        /\ Goto(t, "sync_create",
                [loc[t] EXCEPT !.todo = @ \ {prefix},
                               !.lastError = <<path_str, errCode>>,
                               !.fails = Append(@, <<path_str, errCode>>)])
    /\ UNCHANGED <<registry, serial, table, cookieObjs, disk, returned,
                   alive, now, served, span, answer>>

\* one round of the loop: w_stm_open fails with errCode
SyncCreateFail(t) ==
    /\ At(t, "sync_create")
    /\ \E prefix \in loc[t].todo, errCode \in Errnos :
        LET path_str == CookiePath(prefix, loc[t].cookie) IN
        /\ numPending' = [numPending EXCEPT ![loc[t].cookie] = @ - 1]
        /\ Goto(t, "sync_create",
                [loc[t] EXCEPT !.todo = @ \ {prefix},
                               !.lastError = <<path_str, errCode>>,
                               !.fails = Append(@, <<path_str, errCode>>)])
    /\ UNCHANGED <<registry, serial, table, promise, disk, returned, alive,
                   now, served, span, answer>>

\* what the caller of sync() gets when it throws
Thrown(l) ==
    [kind |-> "FileCreationError", err |-> l.lastError, fails |-> l.fails]

\* the throw leaves sync(), and syncToNow() when that is the caller
Throw(t, r) ==
    /\ cookiesLock' = None
    /\ outcome' = Insert(outcome, {loc[t].cookie}, r)
    /\ result' = IF loc[t].op = "syncToNow"
                 THEN [result EXCEPT ![t] = r] ELSE result
    /\ Return(t)

\* pendingCookies.size() == 0 with an error recorded: throw system_error
SyncThrow(t) ==
    /\ At(t, "sync_create")
    /\ loc[t].todo = {} /\ loc[t].pending = {} /\ loc[t].lastError # NoError
    /\ Throw(t, Thrown(loc[t]))
    /\ UNCHANGED <<registry, serial, cookies, erasedBy, cookieObjs, disk,
                   alive, now, served, span, answer>>

\* pendingCookies.size() == 0 and no error recorded (no directory was
\* registered): w_assert fails.  The process is aborted; where assertions
\* are compiled out, *lastError reads an empty optional and the error
\* thrown carries whatever was there.
SyncAssert(t) ==
    /\ At(t, "sync_create")
    /\ loc[t].todo = {} /\ loc[t].pending = {} /\ loc[t].lastError = NoError
    /\ \/ /\ alive' = FALSE
          /\ UNCHANGED <<cookiesLock, pc, loc, returned>>
       \/ /\ Throw(t, Thrown([loc[t] EXCEPT !.lastError = <<<<"?">>, "?">>]))
          /\ UNCHANGED alive
    /\ UNCHANGED <<registry, serial, cookies, erasedBy, cookieObjs, disk,
                   now, served, span, answer>>

\* cookiesLock->insert(...); return cookie->promise.getFuture()
SyncReturn(t) ==
    /\ At(t, "sync_create")
    /\ loc[t].todo = {} /\ loc[t].pending # {}
    /\ cookies' = Insert(cookies, loc[t].pending, loc[t].cookie)
    /\ cookiesLock' = None
    /\ outcome' = Insert(outcome, {loc[t].cookie},
                         [kind |-> "future", err |-> NoError, fails |-> loc[t].fails])
    /\ IF loc[t].op = "sync"
       THEN Return(t)
       ELSE Goto(t, "wait", [loc[t] EXCEPT !.waitStart = now, !.pending = {},
                                            !.lastError = NoError, !.fails = <<>>])
    /\ UNCHANGED <<registry, serial, erasedBy, cookieObjs, disk, result,
                   alive, now, served, span, answer>>

(* --------------------------- notifyCookie ----------------------------- *)
\* the paths the watcher reports: files it saw created, and other files
Observed == (DOMAIN created) \cup {OtherPath}

AllPaths ==
    {CookiePath(DirPrefix(d), n) : d \in Dirs, n \in 0..(MaxSerial - 1)}
        \cup {OtherPath}

\* mutant: the file is unlinked whether or not the entry was found
NotifyLookupUnlinks(t, path) ==
    /\ At(t, "idle") /\ path \in Observed /\ cookiesLock = None
    /\ IF path \in DOMAIN cookies
       THEN /\ cookies' = Erase(cookies, {path})
            /\ erasedBy' = Insert(erasedBy, {path}, "notify")
            /\ Goto(t, "notify_found",
                    [NoLocals EXCEPT !.op = "notifyCookie", !.path = path,
                                     !.cookie = cookies[path]])
            /\ UNCHANGED files
       ELSE /\ files' = files \ {path}
            /\ UNCHANGED <<cookies, erasedBy, pc, loc>>
    /\ UNCHANGED <<registry, serial, cookiesLock, cookieObjs, created,
                   returned, alive, now, served, span, answer>>

\* the locked block: find(path) and, when found, move the Cookie out and
\* erase the entry
NotifyLookup(t, path) ==
    /\ At(t, "idle") /\ path \in Observed /\ cookiesLock = None
    /\ IF path \in DOMAIN cookies
       THEN /\ cookies' = Erase(cookies, {path})
            /\ erasedBy' = Insert(erasedBy, {path}, "notify")
            /\ Goto(t, "notify_found",
                    [NoLocals EXCEPT !.op = "notifyCookie", !.path = path,
                                     !.cookie = cookies[path]])
       ELSE UNCHANGED <<cookies, erasedBy, pc, loc>>
    /\ UNCHANGED <<registry, serial, cookiesLock, cookieObjs, disk, returned,
                   alive, now, served, span, answer>>

\* if (cookie) { cookie->notify(); unlink(path) }
NotifyFound(t) ==
    /\ At(t, "notify_found")
    /\ CookieNotify(loc[t].cookie)
    /\ files' = files \ {loc[t].path}
    /\ served' = served \cup {loc[t].path}
    /\ Return(t)
    /\ UNCHANGED <<registry, serial, table, created, returned, alive, now,
                   span, answer>>

(* -------------------------- abortAllCookies --------------------------- *)
\* the locked block: std::swap(*map, cookies)
AbortSwap(t) ==
    /\ At(t, "idle") /\ cookiesLock = None
    /\ cookies' = EmptyMap
    /\ erasedBy' = [p \in (DOMAIN erasedBy) \cup (DOMAIN cookies) |->
                      IF p \in DOMAIN cookies THEN "abort" ELSE erasedBy[p]]
    /\ IF DOMAIN cookies = {}
       THEN UNCHANGED <<pc, loc>>
       ELSE Goto(t, "abort_loop",
                 [NoLocals EXCEPT !.op = "abortAllCookies", !.swapped = cookies])
    /\ UNCHANGED <<registry, serial, cookiesLock, cookieObjs, disk, returned,
                   alive, now, served, span, answer>>

\* mutant: an entry swapped out is dropped without the decrement
AbortEntryNoDecrement(t) ==
    /\ At(t, "abort_loop")
    /\ \E p \in DOMAIN loc[t].swapped :
        IF DOMAIN loc[t].swapped = {p}
        THEN Return(t)
        ELSE Goto(t, "abort_loop", [loc[t] EXCEPT !.swapped = Erase(@, {p})])
    /\ UNCHANGED <<registry, serial, table, cookieObjs, disk, returned,
                   alive, now, served, span, answer>>

\* one round of the loop over the swapped-out entries
AbortEntry(t) ==
    /\ At(t, "abort_loop")
    /\ \E p \in DOMAIN loc[t].swapped :
        /\ FetchSubAndSet(loc[t].swapped[p], "exception")
        /\ IF DOMAIN loc[t].swapped = {p}
           THEN Return(t)
           ELSE Goto(t, "abort_loop",
                     [loc[t] EXCEPT !.swapped = Erase(@, {p})])
    /\ UNCHANGED <<registry, serial, table, disk, returned, alive, now,
                   served, span, answer>>

(* -------------------------- query predicates -------------------------- *)
\* position of the last "/" of s, 0 when it has none
RECURSIVE LastSlash(_)
LastSlash(s) ==
    IF s = <<>> THEN 0
    ELSE IF s[Len(s)] = "/" THEN Len(s)
    ELSE LastSlash(SubSeq(s, 1, Len(s) - 1))

\* w_string::baseName(): what follows the last "/"
BaseName(s) == SubSeq(s, LastSlash(s) + 1, Len(s))

\* the loop of isCookiePrefix over dirs_
isCookiePrefix(path) ==
    \E dir \in dirs :
        StartsWith(path, dir) /\ StartsWith(BaseName(path), CookiePrefix)

\* the loop of isCookieDir over dirs_
isCookieDir(path) == \E dir \in dirs : path = dir

\* the paths the watcher asks about: a cookie name and another name, in
\* "/a", in "/ab", in the subdirectory "/a/s" and in "/x"; and the
\* directories themselves
QueryDirs == Dirs \cup {<<"/", "a", "/", "s">>, <<"/", "x">>}
QueryPaths ==
    {d \o <<"/">> \o name : d \in QueryDirs,
                            name \in {CookiePrefix \o <<"0">>, <<"f">>}}
        \cup QueryDirs

IsCookiePrefixCall(t, path) ==
    /\ At(t, "idle") /\ CanRead
    /\ answer' = [answer EXCEPT ![t] =
                     [op |-> "isCookiePrefix", path |-> path, dirs |-> dirs,
                      value |-> isCookiePrefix(path)]]
    /\ UNCHANGED <<registry, serial, table, cookieObjs, disk, pc, loc,
                   returned, alive, now, served, span>>

IsCookieDirCall(t, path) ==
    /\ At(t, "idle") /\ CanRead
    /\ answer' = [answer EXCEPT ![t] =
                     [op |-> "isCookieDir", path |-> path, dirs |-> dirs,
                      value |-> isCookieDir(path)]]
    /\ UNCHANGED <<registry, serial, table, cookieObjs, disk, pc, loc,
                   returned, alive, now, served, span>>

(* ------------------------------ syncToNow ----------------------------- *)
Resolved(c) == promise[c] # <<>>

\* duration_cast<milliseconds>: truncation toward zero
ToMs(ticks) ==
    IF ticks >= 0 THEN ticks \div TicksPerMs ELSE -((-ticks) \div TicksPerMs)

Finish(t, kind) ==
    /\ result' = [result EXCEPT ![t] = [NoResult EXCEPT !.kind = kind]]
    /\ Return(t)

\* deadline = now() + timeout; the loop is entered
SyncToNowEnter(t, timeout) ==
    /\ At(t, "idle")
    /\ serial + Starting < MaxSerial
    /\ result' = [result EXCEPT ![t] = NoResult]
    /\ Goto(t, "sync_begin",
            [NoLocals EXCEPT !.op = "syncToNow", !.timeout = timeout,
                             !.deadline = now + timeout * TicksPerMs])
    /\ UNCHANGED <<registry, serial, table, cookieObjs, disk, outcome, alive,
                   now, served, span, answer>>

\* cookie.wait(timeout) returns: the future is ready or the time is up
WaitReturn(t) ==
    /\ At(t, "wait")
    /\ \/ Resolved(loc[t].cookie)
       \/ now - loc[t].waitStart >= loc[t].timeout * TicksPerMs
    /\ Goto(t, "waited", loc[t])
    /\ UNCHANGED <<registry, serial, table, cookieObjs, disk, returned,
                   alive, now, served, span, answer>>

\* mutant: a wait that timed out goes round the loop again
StnTimeoutRetries(t) ==
    /\ At(t, "waited") /\ ~Resolved(loc[t].cookie)
    /\ serial + Starting < MaxSerial
    /\ Goto(t, "sync_begin", [loc[t] EXCEPT !.cookie = NoCookie])
    /\ UNCHANGED <<registry, serial, table, cookieObjs, disk, returned,
                   alive, now, served, span, answer>>

\* !isReady(): throw system_error(ETIMEDOUT)
StnTimeout(t) ==
    /\ At(t, "waited") /\ ~Resolved(loc[t].cookie)
    /\ Finish(t, "Timeout")
    /\ UNCHANGED <<registry, serial, table, cookieObjs, disk, outcome, alive,
                   now, served, span, answer>>

\* result().hasValue(): return
StnSuccess(t) ==
    /\ At(t, "waited") /\ Resolved(loc[t].cookie)
    /\ Head(promise[loc[t].cookie]) = "value"
    /\ Finish(t, "ok")
    /\ UNCHANGED <<registry, serial, table, cookieObjs, disk, outcome, alive,
                   now, served, span, answer>>

\* mutant: the retry waits for the timeout it had, not for what is left
StnAbortedKeepsTimeout(t) ==
    /\ At(t, "waited") /\ Resolved(loc[t].cookie)
    /\ Head(promise[loc[t].cookie]) = "exception"
    /\ LET timeout == ToMs(loc[t].deadline - now) IN
        IF timeout <= 0
        THEN Finish(t, "Aborted")
        ELSE /\ serial + Starting < MaxSerial
             /\ Goto(t, "sync_begin", [loc[t] EXCEPT !.cookie = NoCookie])
             /\ UNCHANGED result
    /\ UNCHANGED <<registry, serial, table, cookieObjs, disk, outcome, alive,
                   now, served, span, answer>>

\* mutant: an aborted sync ends syncToNow whatever time is left
StnAbortedGivesUp(t) ==
    /\ At(t, "waited") /\ Resolved(loc[t].cookie)
    /\ Head(promise[loc[t].cookie]) = "exception"
    /\ Finish(t, "Aborted")
    /\ UNCHANGED <<registry, serial, table, cookieObjs, disk, outcome, alive,
                   now, served, span, answer>>

\* the sync was aborted: recompute the timeout; throw CookieSyncAborted when
\* none is left, else go round the loop
StnAborted(t) ==
    /\ At(t, "waited") /\ Resolved(loc[t].cookie)
    /\ Head(promise[loc[t].cookie]) = "exception"
    /\ LET timeout == ToMs(loc[t].deadline - now) IN
        IF timeout <= 0
        THEN Finish(t, "Aborted")
        ELSE /\ serial + Starting < MaxSerial
             /\ Goto(t, "sync_begin",
                     [loc[t] EXCEPT !.timeout = timeout, !.cookie = NoCookie])
             /\ UNCHANGED result
    /\ UNCHANGED <<registry, serial, table, cookieObjs, disk, outcome, alive,
                   now, served, span, answer>>

\* the clock advances
Tick ==
    /\ alive /\ now < MaxTime
    /\ now' = now + 1
    /\ UNCHANGED <<registry, serial, table, cookieObjs, disk, pc, loc,
                   returned, alive, served, span, answer>>

\* the clock advances past MaxTime for as long as a wait(timeout) is
\* running that has not reached its end
WaitTick ==
    /\ alive /\ now >= MaxTime
    /\ \E t \in Threads :
        /\ pc[t] = "wait"
        /\ now - loc[t].waitStart < loc[t].timeout * TicksPerMs
    /\ now' = now + 1
    /\ UNCHANGED <<registry, serial, table, cookieObjs, disk, pc, loc,
                   returned, alive, served, span, answer>>

(* --------------------------- specifications --------------------------- *)
\* threads calling sync, notifyCookie, removeCookieDir and abortAllCookies
Next ==
    \/ \E t \in Threads, d \in Dirs : RemoveDirErase(t, d)
    \/ \E t \in Threads : RemoveDirUnlock(t)
    \/ \E t \in Threads : RemoveDirLock(t)
    \/ \E t \in Threads : RemoveDirCancel(t)
    \/ \E t \in Threads : SyncCall(t)
    \/ \E t \in Threads : SyncPrefix(t)
    \/ \E t \in Threads : SyncSerial(t)
    \/ \E t \in Threads : SyncLock(t)
    \/ \E t \in Threads : SyncCreateOk(t)
    \/ \E t \in Threads : SyncCreateFail(t)
    \/ \E t \in Threads : SyncThrow(t)
    \/ \E t \in Threads : SyncAssert(t)
    \/ \E t \in Threads : SyncReturn(t)
    \/ \E t \in Threads, path \in AllPaths : NotifyLookup(t, path)
    \/ \E t \in Threads : NotifyFound(t)
    \/ \E t \in Threads : AbortSwap(t)
    \/ \E t \in Threads : AbortEntry(t)

Spec == Init /\ [][Next]_vars

\* a registry that removeCookieDir may also have emptied
InitT ==
    /\ dirs \in SUBSET Dirs
    /\ dirsLock = {}
    /\ serial = 0
    /\ cookies = EmptyMap
    /\ cookiesLock = None
    /\ numPending = EmptyMap
    /\ promise = EmptyMap
    /\ files = {}
    /\ pc = [t \in Threads |-> "idle"]
    /\ loc = [t \in Threads |-> NoLocals]
    /\ outcome = EmptyMap
    /\ result = [t \in Threads |-> NoResult]
    /\ alive = TRUE
    /\ now = 0
    /\ created = EmptyMap
    /\ erasedBy = EmptyMap
    /\ served = {}
    /\ span = EmptyMap
    /\ answer = [t \in Threads |-> NoAnswer]

\* the thread that calls syncToNow; the other threads are the watcher's
Callers == {"t1"}

\* one thread calling syncToNow, the others notifyCookie and
\* abortAllCookies, while the clock runs
NextT ==
    \/ Tick
    \/ \E t \in Callers, timeout \in 1..MaxTimeout : SyncToNowEnter(t, timeout)
    \/ \E t \in Threads : WaitReturn(t)
    \/ \E t \in Threads : StnTimeout(t)
    \/ \E t \in Threads : StnSuccess(t)
    \/ \E t \in Threads : StnAborted(t)
    \/ \E t \in Threads : SyncPrefix(t)
    \/ \E t \in Threads : SyncSerial(t)
    \/ \E t \in Threads : SyncLock(t)
    \/ \E t \in Threads : SyncCreateOk(t)
    \/ \E t \in Threads : SyncCreateFail(t)
    \/ \E t \in Threads : SyncThrow(t)
    \/ \E t \in Threads : SyncAssert(t)
    \/ \E t \in Threads : SyncReturn(t)
    \/ \E t \in Threads \ Callers, path \in AllPaths : NotifyLookup(t, path)
    \/ \E t \in Threads : NotifyFound(t)
    \/ \E t \in Threads \ Callers : AbortSwap(t)
    \/ \E t \in Threads : AbortEntry(t)

SpecT == InitT /\ [][NextT]_vars

\* the steps of a call thread t is in the middle of
Running(t) ==
    \/ RemoveDirUnlock(t) \/ RemoveDirCancel(t)
    \/ SyncSerial(t) \/ SyncCreateOk(t) \/ SyncCreateFail(t)
    \/ SyncThrow(t) \/ SyncAssert(t) \/ SyncReturn(t)
    \/ NotifyFound(t) \/ AbortEntry(t)
    \/ WaitReturn(t) \/ StnTimeout(t) \/ StnSuccess(t) \/ StnAborted(t)

\* syncToNow is called with a deadline within the time modelled
EnterInTime(t, timeout) ==
    /\ now + timeout * TicksPerMs <= MaxTime
    /\ SyncToNowEnter(t, timeout)

\* abortAllCookies is called while sync() calls are left to make, so that a
\* retry of syncToNow that follows it is never held up
AbortAgain(t) == serial < MaxSerial /\ AbortSwap(t)

\* one thread calling syncToNow, the others notifyCookie, removeCookieDir
\* and abortAllCookies
NextL ==
    \/ Tick
    \/ WaitTick
    \/ \E t \in Callers, timeout \in 1..MaxTimeout : EnterInTime(t, timeout)
    \/ \E t \in Threads : Running(t)
    \/ \E t \in Threads : SyncPrefix(t)
    \/ \E t \in Threads : SyncLock(t)
    \/ \E t \in Threads : RemoveDirLock(t)
    \/ \E t \in Threads \ Callers, d \in Dirs : RemoveDirErase(t, d)
    \/ \E t \in Threads \ Callers, path \in AllPaths : NotifyLookup(t, path)
    \/ \E t \in Threads \ Callers : AbortAgain(t)

\* fair scheduling: a thread in the middle of a call takes its next step,
\* a thread waiting for a lock gets it, and the clock advances
Fairness ==
    /\ WF_vars(Tick \/ WaitTick)
    /\ \A t \in Threads :
        /\ WF_vars(Running(t))
        /\ SF_vars(SyncPrefix(t))
        /\ SF_vars(SyncLock(t))
        /\ SF_vars(RemoveDirLock(t))

\* right after construction: the one directory the constructor was given
InitL == Init /\ dirs = {DirA}

SpecL == InitL /\ [][NextL]_vars /\ Fairness

\* threads changing the registry, and the watcher's thread asking the query
\* predicates
NextQ ==
    \/ \E t \in Threads, d \in Dirs : AddCookieDir(t, d)
    \/ \E t \in Threads, d \in Dirs : SetCookieDir(t, d)
    \/ \E t \in Threads, d \in Dirs : RemoveDirErase(t, d)
    \/ \E t \in Threads : RemoveDirUnlock(t)
    \/ \E t \in Threads : RemoveDirLock(t)
    \/ \E t \in Threads : RemoveDirCancel(t)
    \/ \E t \in Threads \ Callers, path \in QueryPaths :
          IsCookiePrefixCall(t, path)
    \/ \E t \in Threads \ Callers, path \in QueryPaths :
          IsCookieDirCall(t, path)

SpecQ == InitL /\ [][NextQ]_vars

\* threads calling sync, notifyCookie and abortAllCookies while the registry
\* is added to, replaced and removed from
NextD ==
    \/ \E t \in Threads, d \in Dirs : AddCookieDir(t, d)
    \/ \E t \in Threads, d \in Dirs : SetCookieDir(t, d)
    \/ Next

SpecD == InitL /\ [][NextD]_vars

(* ------------------------------ properties ---------------------------- *)
\* the paths that have had an entry in cookies_
Published == (DOMAIN cookies) \cup (DOMAIN erasedBy)

\* the files sync() created for Cookie c
PathsOf(c) == {p \in DOMAIN created : created[p] = c}

Fulfilled(c) == promise[c] # <<>> /\ Head(promise[c]) = "value"
Aborted(c) == promise[c] # <<>> /\ Head(promise[c]) = "exception"

\* every share of c that left the table left it through notifyCookie
OnlyNotified(c) ==
    \A p \in PathsOf(c) : p \in DOMAIN erasedBy => erasedBy[p] = "notify"

\* the path lies in directory d or below it
RootedUnder(p, d) == StartsWith(p, d \o <<"/">>)

\* C1: no lost notification.  In every state in which a notifyCookie(p) can
\* take the table lock and look p up, and the file of p has already been
\* created by sync(), the entry of p has already been inserted in cookies_
\* (it is there, or an earlier call took it out): the lookup never falls
\* between the creation and the insertion.
C1_NoLostNotification ==
    \A t \in Threads, p \in AllPaths :
        (p \in DOMAIN created /\ ENABLED NotifyLookup(t, p)) => p \in Published

\* a notifyCookie call has found the entry of a file sync() created
C1_Witness ==
    \E t \in Threads :
        /\ pc[t] = "notify_found"
        /\ loc[t].path \in DOMAIN created
        /\ \E u \in Threads : pc[u] = "sync_create" /\ loc[u].pending # {}

\* C2: a Cookie built over N directories whose N files were all created,
\* and whose shares have left the table through notifyCookie only, is
\* fulfilled exactly when notifyCookie has run for all N of its paths; it is
\* pending before, and it is never failed.
C2_FulfilledIffAllNotified ==
    \A c \in DOMAIN outcome :
        (/\ outcome[c].kind = "future"
         /\ Cardinality(PathsOf(c)) = span[c]
         /\ OnlyNotified(c))
        => /\ Fulfilled(c) <=> PathsOf(c) \subseteq served
           /\ ~Aborted(c)

\* a Cookie over two directories, fulfilled by its second notification
C2_Witness ==
    \E c \in DOMAIN outcome :
        /\ span[c] = 2 /\ Cardinality(PathsOf(c)) = 2
        /\ PathsOf(c) \subseteq served
        /\ Fulfilled(c)

\* C3: the promise of a Cookie is completed at most once, so never both
\* fulfilled and failed, and a completed Cookie has numPending 0: the
\* decrement from 1 to 0 is the one that completed it.
C3_AtMostOneTransition ==
    \A c \in DOMAIN promise :
        /\ Len(promise[c]) <= 1
        /\ promise[c] # <<>> => numPending[c] = 0

\* a Cookie over two directories that lost one share to notifyCookie and
\* the last one to abortAllCookies
C3_Witness ==
    \E c \in DOMAIN promise :
        /\ span[c] = 2 /\ Aborted(c)
        /\ \E p \in PathsOf(c) : p \in served
        /\ \E p \in PathsOf(c) : p \in DOMAIN erasedBy /\ erasedBy[p] = "abort"

\* C4, as claimed: a Cookie that had an entry in the table when
\* abortAllCookies swapped it out is never fulfilled, and is failed once the
\* abortAllCookies and notifyCookie calls in progress have returned.
C4_AbortedNeverFulfilled ==
    \A p \in DOMAIN erasedBy :
        erasedBy[p] = "abort" =>
            /\ ~Fulfilled(created[p])
            /\ (\A t \in Threads : pc[t] \notin {"abort_loop", "notify_found"})
                   => Aborted(created[p])

\* C5, as claimed: when the loop of removeCookieDir(d) returns, every entry
\* that was in the table and is rooted under d has been erased and has had
\* its Cookie decremented.
C5_RemoveCancelsAll ==
    [][\A t \in Threads :
         (pc[t] = "rm_loop" /\ pc'[t] = "idle") =>
             \A p \in DOMAIN cookies :
                 RootedUnder(p, loc[t].dir) => p \notin DOMAIN cookies']_vars

\* C6: a sync() over N >= 1 directories in which every creation failed
\* throws, with the path and the errno of the last failed creation; it
\* returns no future and none of its paths is ever in the table.
C6_AllFailedThrowsLast ==
    \A c \in DOMAIN outcome :
        (span[c] >= 1 /\ Len(outcome[c].fails) = span[c])
        => /\ outcome[c].kind = "FileCreationError"
           /\ outcome[c].err = outcome[c].fails[Len(outcome[c].fails)]
           /\ \A p \in DOMAIN cookies : cookies[p] # c
           /\ \A p \in DOMAIN erasedBy : created[p] # c
           /\ promise[c] = <<>>

\* a sync() over two directories has thrown after two failed creations
C6_Witness ==
    \E c \in DOMAIN outcome :
        /\ span[c] = 2 /\ Len(outcome[c].fails) = 2
        /\ outcome[c].fails[1][1] # outcome[c].fails[2][1]
        /\ outcome[c].kind = "FileCreationError"

\* sync() returns in this step, in thread t
SyncReturns(t) ==
    pc[t] = "sync_create" /\ pc'[t] \in {"idle", "wait"} /\ alive'
        /\ loc[t].pending # {}

\* 0 < k < N creations of Cookie c failed
PartlyFailed(c) ==
    /\ outcome[c].kind = "future"
    /\ 0 < Len(outcome[c].fails) /\ Len(outcome[c].fails) < span[c]

\* C7: when k of the N creations fail, 0 < k < N, sync() returns a future;
\* as it returns, the entries of its Cookie in the table are the N-k paths
\* created and numPending is N-k; and the Cookie, its shares leaving through
\* notifyCookie only, is fulfilled exactly when notifyCookie has run for
\* those N-k paths.
C7_PartialFailure ==
    /\ [][\A t \in Threads :
            (SyncReturns(t) /\ loc[t].fails # <<>>) =>
                LET c == loc[t].cookie IN
                /\ c \in DOMAIN outcome' /\ outcome'[c].kind = "future"
                /\ {p \in DOMAIN cookies' : cookies'[p] = c} = PathsOf(c)
                /\ Cardinality(PathsOf(c)) = span[c] - Len(loc[t].fails)
                /\ numPending'[c] = span[c] - Len(loc[t].fails)]_vars
    /\ [](\A c \in DOMAIN outcome :
            (PartlyFailed(c) /\ OnlyNotified(c)) =>
                (Fulfilled(c) <=> PathsOf(c) \subseteq served))

\* a Cookie over two directories, one creation failed, fulfilled by the
\* notification of the other
C7_Witness ==
    \E c \in DOMAIN outcome :
        /\ PartlyFailed(c) /\ span[c] = 2
        /\ PathsOf(c) \subseteq served
        /\ Fulfilled(c)

\* thread t, in syncToNow, leaves the check of the future it waited for
LeavesCheck(t) == pc[t] = "waited" /\ pc'[t] # "waited"

\* thread t, in syncToNow, calls sync() again in this step
Retries(t) ==
    loc[t].op = "syncToNow" /\ pc[t] # "sync_begin" /\ pc'[t] = "sync_begin"

\* syncToNow ends in this step, in thread t
StnEnds(t) ==
    loc[t].op = "syncToNow" /\ pc[t] # "idle" /\ pc'[t] = "idle"

\* the deadline stays what it was at entry
DeadlineFixed(t) ==
    (loc[t].op = "syncToNow" /\ loc'[t].op = "syncToNow")
        => loc'[t].deadline = loc[t].deadline

\* C8, as claimed: when the future is failed, a time left to the deadline
\* that is positive gives a fresh sync() waited for at most that time, and
\* a deadline that has passed gives the Aborted error.
C8_RetryWhenPositive ==
    [][\A t \in Threads :
         (LeavesCheck(t) /\ Aborted(loc[t].cookie)) =>
             IF loc[t].deadline - now > 0
             THEN /\ Retries(t)
                  /\ loc'[t].timeout * TicksPerMs <= loc[t].deadline - now
             ELSE StnEnds(t) /\ result'[t].kind = "Aborted"]_vars

\* C8, amended: the deadline is fixed at entry (entry time + timeout); when
\* the future is failed, the time left to it in whole milliseconds, if
\* positive, gives a fresh sync() waited for at most that time, and
\* otherwise (the deadline has passed or is less than a millisecond away)
\* gives the Aborted error; sync() is called again only after a failed
\* future.
C8_RetryWhenMillisecondsLeft ==
    [][\A t \in Threads :
         /\ DeadlineFixed(t)
         /\ (pc[t] = "idle" /\ loc'[t].op = "syncToNow") =>
                loc'[t].deadline = now + loc'[t].timeout * TicksPerMs
         /\ (LeavesCheck(t) /\ Aborted(loc[t].cookie)) =>
                IF ToMs(loc[t].deadline - now) > 0
                THEN /\ Retries(t)
                     /\ loc'[t].timeout = ToMs(loc[t].deadline - now)
                     /\ loc'[t].timeout * TicksPerMs <= loc[t].deadline - now
                ELSE StnEnds(t) /\ result'[t].kind = "Aborted"
         /\ Retries(t) =>
                pc[t] = "waited" /\ Aborted(loc[t].cookie)]_vars

\* a second sync() is waited for with a timeout shorter than the first one
C8_Witness ==
    \E t \in Threads :
        /\ pc[t] = "wait" /\ loc[t].cookie = 1
        /\ Aborted(0)
        /\ loc[t].timeout * TicksPerMs < loc[t].deadline
        /\ loc[t].timeout >= 1

\* C9: when the wait has ended and the future is not completed, syncToNow
\* throws the Timeout error and calls sync() no more; when the future is
\* fulfilled, syncToNow returns.
C9_TimeoutNoRetry ==
    [][\A t \in Threads :
         /\ (LeavesCheck(t) /\ ~Resolved(loc[t].cookie)) =>
                /\ StnEnds(t) /\ result'[t].kind = "Timeout"
                /\ serial' = serial
         /\ (LeavesCheck(t) /\ Fulfilled(loc[t].cookie)) =>
                StnEnds(t) /\ result'[t].kind = "ok"]_vars

\* syncToNow has timed out in one thread while the Cookie it waited for is
\* still in the table
C9_Witness ==
    \E t \in Threads :
        /\ result[t].kind = "Timeout" /\ pc[t] = "idle"
        /\ \E p \in DOMAIN cookies : promise[cookies[p]] = <<>>

\* C10, as claimed: syncToNow ends with success, Timeout or Aborted, and
\* with nothing else.
C10_ThreeOutcomes ==
    \A t \in Threads : result[t].kind \in {None, "ok", "Timeout", "Aborted"}

\* C10, amended: a syncToNow call that ends, ends in one of four ways:
\* success, on a fulfilled future; Timeout, on a future not completed;
\* Aborted, on a failed future with no whole millisecond left to the
\* deadline; or the error sync() throws when it created no cookie file.
C10_FourOutcomes ==
    [][\A t \in Threads :
         StnEnds(t) =>
             \/ /\ result'[t].kind = "ok"
                /\ pc[t] = "waited" /\ Fulfilled(loc[t].cookie)
             \/ /\ result'[t].kind = "Timeout"
                /\ pc[t] = "waited" /\ ~Resolved(loc[t].cookie)
             \/ /\ result'[t].kind = "Aborted"
                /\ pc[t] = "waited" /\ Aborted(loc[t].cookie)
                /\ ToMs(loc[t].deadline - now) <= 0
             \/ /\ result'[t].kind = "FileCreationError"
                /\ pc[t] = "sync_create"
                /\ loc[t].todo = {} /\ loc[t].pending = {}
                /\ PathsOf(loc[t].cookie) = {}]_vars

\* syncToNow has ended with the error of a sync() whose creations all
\* failed, after a first sync() that was aborted
C10_Witness ==
    \E t \in Threads :
        /\ result[t].kind = "FileCreationError" /\ result[t].fails # <<>>
        /\ Aborted(0)

\* thread t is inside a syncToNow call
InSyncToNow(t) == loc[t].op = "syncToNow"

\* C11, as claimed: under fair scheduling and an advancing clock, every
\* syncToNow call in progress eventually returns or throws.
C11_AlwaysEnds ==
    \A t \in Callers : InSyncToNow(t) ~> (pc[t] = "idle")

\* C11, what does hold: a syncToNow call in progress eventually returns or
\* throws unless the process dies under it (the w_assert of sync() on an
\* emptied registry, the loop of removeCookieDir).
C11_EndsUnlessProcessDies ==
    \A t \in Callers : InSyncToNow(t) ~> (pc[t] = "idle" \/ ~alive)

\* thread t holds the registry lock / the table lock
HoldsRegistry(t) == \E h \in dirsLock : h[1] = t
HoldsTable(t) == cookiesLock = t

\* thread t stands before a lock it cannot take now
Blocked(t) ==
    \/ pc[t] = "sync_begin" /\ ~CanRead
    \/ pc[t] \in {"sync_lock", "rm_lock"} /\ cookiesLock # None

\* C12: no thread holds the registry lock and the table lock at once, and a
\* thread that holds a lock is never itself waiting for one; so while the
\* process lives some thread is always free to move (no deadlock).
C12_LocksNeverNested ==
    /\ \A t \in Threads : ~(HoldsRegistry(t) /\ HoldsTable(t))
    /\ \A t \in Threads : (HoldsRegistry(t) \/ HoldsTable(t)) => ~Blocked(t)
    /\ alive => \E t \in Threads : ~Blocked(t)

\* removeCookieDir holds the registry lock while sync() holds the table
\* lock, its files half written
C12_Witness ==
    \E t, u \in Threads :
        /\ pc[t] = "rm_unlock" /\ HoldsRegistry(t)
        /\ pc[u] = "sync_create" /\ HoldsTable(u) /\ loc[u].pending # {}

\* thread t is in sync() and has drawn its serial
HasSerial(t) == pc[t] \in {"sync_lock", "sync_create"}

\* the paths whose file thread t creates in this step
NewFiles(t) == loc'[t].pending \ loc[t].pending

\* C13: the serial a sync() call draws is greater than every serial drawn
\* before it, so the serials of sync() calls, concurrent ones included, are
\* pairwise distinct; the path of a file sync() creates has not been the
\* path of a file of an earlier sync(), and the entries sync() inserts
\* find no entry of another Cookie under their paths.
C13_SerialsDistinct ==
    /\ [](\A t, u \in Threads :
            (t # u /\ HasSerial(t) /\ HasSerial(u))
                => loc[t].cookie # loc[u].cookie)
    /\ [](\A c \in DOMAIN span : c < serial)
    /\ [][\A t \in Threads :
            /\ (pc[t] = "sync_serial" /\ pc'[t] = "sync_lock") =>
                   /\ loc'[t].cookie = serial /\ serial' > serial
                   /\ \A c \in DOMAIN span : c < loc'[t].cookie
            /\ (pc[t] = "sync_create" /\ pc'[t] = "sync_create") =>
                   NewFiles(t) \cap DOMAIN created = {}
            /\ SyncReturns(t) =>
                   /\ loc[t].pending \cap DOMAIN cookies = {}
                   /\ \A p \in loc[t].pending :
                          cookies'[p] = loc[t].cookie]_vars

\* two sync() calls run at once over the same two directories, with
\* different serials, the files of the first already written
C13_Witness ==
    \E t, u \in Threads :
        /\ pc[t] = "sync_create" /\ Cardinality(loc[t].pending) = 2
        /\ pc[u] = "sync_lock" /\ Cardinality(loc[u].todo) = 2
        /\ loc[t].cookie # loc[u].cookie

\* sync() returned a future for Cookie c, and every entry c had in the
\* table was taken out by removeCookieDir
AllSharesRemoved(c) ==
    /\ outcome[c].kind = "future"
    /\ PathsOf(c) # {}
    /\ \A p \in PathsOf(c) : p \in DOMAIN erasedBy /\ erasedBy[p] = "remove"

\* C14, as claimed: a Cookie all of whose shares were cancelled by
\* removeCookieDir is failed with CookieSyncAborted.
C14_RemovalAborts ==
    \A c \in DOMAIN outcome : AllSharesRemoved(c) => Aborted(c)

\* C14, amended: a Cookie all of whose shares were cancelled by
\* removeCookieDir is fulfilled, its promise set once with a value and never
\* with CookieSyncAborted: its caller sees what it sees after notifyCookie.
C14_RemovalFulfils ==
    \A c \in DOMAIN outcome :
        AllSharesRemoved(c) => promise[c] = <<"value">>

\* a Cookie over two directories whose two entries were cancelled by
\* removeCookieDir
C14_Witness ==
    \E c \in DOMAIN outcome :
        /\ AllSharesRemoved(c) /\ Cardinality(PathsOf(c)) = 2
        /\ Fulfilled(c) /\ numPending[c] = 0

\* the directory a path lies in: what precedes its last "/"
ParentDir(path) == SubSeq(path, 1, LastSlash(path) - 1)

\* C15, as claimed: isCookiePrefix(path) is true exactly when the parent
\* directory of path is registered and the file name of path starts with
\* the cookie prefix.
C15_ParentIsRegistered ==
    \A t \in Threads :
        answer[t].op = "isCookiePrefix" =>
            (answer[t].value <=>
                /\ ParentDir(answer[t].path) \in answer[t].dirs
                /\ StartsWith(BaseName(answer[t].path), CookiePrefix))

\* C16: a notifyCookie(path) call that finds no entry for path in the
\* table (no cookie, or one notified, cancelled or aborted before) changes
\* neither the table, nor numPending or the promise of any Cookie, nor the
\* files on disk, and the thread is done: so does a second call for a path.
C16_AbsentPathNoEffect ==
    [][\A t \in Threads, p \in AllPaths :
         (NotifyLookup(t, p) /\ p \notin DOMAIN cookies) =>
             /\ UNCHANGED <<cookies, numPending, promise, files>>
             /\ pc'[t] = "idle"]_vars

\* a second notifyCookie can run for a path already notified, whose Cookie
\* still waits for its other share, while the file of an aborted entry is
\* still on disk
C16_Witness ==
    \E t \in Threads, p \in AllPaths :
        /\ ENABLED NotifyLookup(t, p)
        /\ p \in served /\ p \notin DOMAIN cookies
        /\ numPending[created[p]] = 1
        /\ \E q \in files : q \in DOMAIN erasedBy /\ erasedBy[q] = "abort"

\* thread t, in sync(), has left the loop with pendingCookies empty
NoCookiesWritten(t) ==
    pc[t] = "sync_create" /\ loc[t].todo = {} /\ loc[t].pending = {}

\* C17, as claimed: when sync() reaches its w_assert, having written no
\* cookie, an error is recorded in lastError.
C17_AssertHolds ==
    \A t \in Threads : NoCookiesWritten(t) => loc[t].lastError # NoError

\* the entries of the table that refer to Cookie c
InTable(c) == {p \in DOMAIN cookies : cookies[p] = c}

\* the entries of Cookie c that thread t took out of the table and has not
\* decremented for yet
Owed(t, c) ==
    IF pc[t] = "notify_found" /\ loc[t].cookie = c THEN {loc[t].path}
    ELSE IF pc[t] = "abort_loop"
         THEN {p \in DOMAIN loc[t].swapped : loc[t].swapped[p] = c}
         ELSE {}

InFlight(c) == UNION {Owed(t, c) : t \in Threads}

CountMatches(c) ==
    /\ numPending[c] = Cardinality(InTable(c)) + Cardinality(InFlight(c))
    /\ InTable(c) \cap InFlight(c) = {}

Quiescent == \A t \in Threads : pc[t] = "idle"

\* C19, as claimed: while no call is in progress, every path of the table
\* lies in a directory that is registered.
C19_TableUnderRegistry ==
    Quiescent => \A p \in DOMAIN cookies : ParentDir(p) \in dirs

\* the loop of removeCookieDir ends in this step, in thread t
RemoveDirReturns(t) == pc[t] = "rm_loop" /\ pc'[t] = "idle"

\* C20, as claimed: removeCookieDir(d) leaves in the table every entry that
\* is not rooted under d, and takes from numPending of a Cookie no more
\* than the number of its entries rooted under d.
C20_OthersUntouched ==
    [][\A t \in Threads :
         RemoveDirReturns(t) =>
             /\ \A p \in DOMAIN cookies :
                    ~RootedUnder(p, loc[t].dir) =>
                        p \in DOMAIN cookies' /\ cookies'[p] = cookies[p]
             /\ \A c \in DOMAIN numPending :
                    numPending[c] - numPending'[c] <=
                        Cardinality({p \in InTable(c) :
                                        RootedUnder(p, loc[t].dir)})]_vars

====
